---- MODULE Spec2Model ----
(***************************************************************************)
(* Model of src/src/bedrock_utils.py: TokenRateLimiter and                 *)
(* invoke_bedrock_with_retries, with the clock they read.                  *)
(*                                                                         *)
(* Time is counted in clock ticks, Second ticks to the second.  Token      *)
(* amounts are counted in quarter tokens, so that the estimate             *)
(* len(str(request)) / 4 of invoke_bedrock_with_retries is exact.          *)
(***************************************************************************)
EXTENDS Integers, Sequences, FiniteSets, TLC

VARIABLES
    now,               \* the value time.time() returns, in ticks
    limiter,           \* the TokenRateLimiter object: its fields
    pc,                \* position of the wait_for_tokens call: "idle" or "sleeping"
    sleep_until,       \* earliest end of the time.sleep in progress
    call,              \* the wait_for_tokens call in progress or last returned
    ncalls,            \* number of wait_for_tokens calls made on the limiter
    first_tokens,      \* tokens_needed of the first call on the limiter
    largest,           \* largest tokens_needed of the calls on the limiter
    ticks,             \* number of times the caller let time pass
    start_time,        \* the caller's clock reading before its first call
    thread,            \* per thread sharing the limiter: its wait_for_tokens call
    race,              \* what the threads' calls did so far: stores, overlap, resets
    admitted,          \* admissions of the last 60 seconds: <<time, tokens>> records
    ipc,               \* position inside invoke_bedrock_with_retries
    rate_limiter,      \* TRUE when a rate limiter was passed to it
    max_retries,       \* its max_retries argument
    request_len,       \* len(str(request))
    outcomes,          \* what each underlying invoke_model call did, in call order
    attempt,           \* the loop variable
    call_count,        \* number of underlying invoke_model calls made
    result,            \* what the function returned or raised
    backoffs,          \* number of backoff sleeps performed
    backoff_until,     \* earliest end of the backoff sleep in progress
    backoff_total,     \* sum of the delays passed to the backoff sleeps so far
    metrics,           \* BedrockMetricsCollector.metrics: the list of metric dicts
    op,                \* the collector method called last: its argument and outcome,
                       \* and whether it is the 1st or a later call in a row (nth)
    metrics_file,      \* the file save_metrics writes
    replaced,          \* what that file held before save_metrics last wrote it
    report_file,       \* the file generate_html_report writes
    response,          \* the argument of extract_code_simple: a string, as characters
    written,           \* the texts and code blocks that response was written from
    extracted,         \* what extract_code_simple returned
    commit_files,      \* commit.files of the commit main is run for
    contact_flow_path, \* main's --contact_flow_path argument, as characters
    filepaths,         \* main's list of the contact flow files to compare
    mpc,               \* position inside main
    versions,          \* the get_file_versions call in progress or last returned
    docs,              \* per document of the loop: how far main got with it
    html_results,      \* main's list of the comparison pages written
    index_file         \* the file index.html

limiter_vars == <<limiter, pc, sleep_until, call, ncalls, first_tokens, largest, admitted>>
caller_vars == <<ticks, start_time, thread, race>>
invoke_vars == <<ipc, rate_limiter, max_retries, request_len, outcomes, attempt,
                 call_count, result, backoffs, backoff_until, backoff_total>>
collector_vars == <<metrics, op, metrics_file, replaced, report_file>>
extract_vars == <<response, written, extracted>>
main_vars == <<commit_files, contact_flow_path, filepaths, mpc, versions, docs,
               html_results, index_file>>
flows_vars == <<extract_vars, main_vars>>
vars == <<now, limiter_vars, caller_vars, invoke_vars, collector_vars, flows_vars>>

-----------------------------------------------------------------------------
(* Bounds of the model *)

\* clock ticks per second: the resolution of the modelled clock
Second == 20
\* wait_for_tokens calls made on one limiter by the direct caller
MaxCalls == 3
\* times the direct caller lets time pass between calls
MaxTicks == 2
\* largest max_retries argument
MaxRetries == 5
\* metrics one collector holds
MaxMetrics == 2
\* code blocks in one response given to extract_code_simple
MaxBlocks == 2
\* files of the commit main is run for
MaxFiles == 3
MaxDocs == 2
MaxAttempts == 2

(* Program constants *)

\* the accounting window in seconds
WindowSeconds == 60
\* len(str(request)) / 4: quarter tokens per token
TokenUnit == 4
\* base_delay, in seconds
base_delay == 1

Window == WindowSeconds * Second
Tokens(n) == n * TokenUnit

\* capacities a limiter is constructed with (100 is the test's)
Capacities == {Tokens(100), Tokens(60)}
\* tokens_needed arguments of the direct caller
TokenChoices == {Tokens(0), Tokens(50), Tokens(60), Tokens(110)}
\* how long the caller lets time pass in one step
TickSteps == {1, Window - 1, Window}
\* how much longer than asked a time.sleep may last
Oversleeps == {0, 1}
\* len(str(request)) of the requests passed to invoke_bedrock_with_retries
RequestLens == {200, 260}
\* random.random() * 0.1 seconds, in ticks
Jitters == 0 .. (Second \div 10 - 1)
\* what a call of the underlying invoke_model does: it returns a response, or
\* raises ClientError with code ThrottlingException, ClientError with another
\* code, or an exception that is no ClientError
Outcomes == {"ok", "ThrottlingException", "ClientError", "Exception"}

-----------------------------------------------------------------------------
(* TokenRateLimiter *)

TokenRateLimiter(tokens_per_minute, t) ==
    [tokens_per_minute |-> tokens_per_minute,
     used_tokens |-> 0,
     window_start_time |-> t]

LazyResetLate(l, t) ==
    IF t - l.window_start_time > Window
      THEN [l EXCEPT !.used_tokens = 0, !.window_start_time = t]
      ELSE l

\* Reset window if a minute has passed
LazyReset(l, t) ==
    IF t - l.window_start_time >= Window
      THEN [l EXCEPT !.used_tokens = 0, !.window_start_time = t]
      ELSE l

OverBudgetAtLimit(l, n) == l.used_tokens + n >= l.tokens_per_minute

\* Check if we would exceed the rate limit
OverBudget(l, n) == l.used_tokens + n > l.tokens_per_minute

SleepTimeElapsed(l, t) == t - l.window_start_time

SleepTimeFromEpoch(l, t) == Window - t

SleepTime(l, t) == Window - (t - l.window_start_time)

Max0(x) == IF x > 0 THEN x ELSE 0

HardResetKeepsUsed(l, t) == [l EXCEPT !.window_start_time = t]

HardReset(l, t) == [l EXCEPT !.used_tokens = 0, !.window_start_time = t]

AdmitNothing(l, n) == l

Admit(l, n) == [l EXCEPT !.used_tokens = @ + n]

\* the admissions that lie in the 60 seconds ending at t
Recent(log, t) == SelectSeq(log, LAMBDA a : a.at + Window > t)

\* wait_for_tokens(n) from its entry to its return, or to its time.sleep;
\* time.sleep raises ValueError when its argument is negative
WaitEnter(n) ==
    LET l1 == LazyReset(limiter, now) IN
    /\ pc = "idle"
    /\ call' = [tokens |-> n, at |-> now, elapsed |-> now - limiter.window_start_time,
                woke |-> now]
    /\ ncalls' = ncalls + 1
    /\ first_tokens' = IF ncalls = 0 THEN n ELSE first_tokens
    /\ largest' = IF n > largest THEN n ELSE largest
    /\ IF OverBudget(l1, n)
         THEN /\ limiter' = l1
              /\ pc' = IF Max0(SleepTime(l1, now)) < 0 THEN "ValueError" ELSE "sleeping"
              /\ sleep_until' = now + Max0(SleepTime(l1, now))
              /\ UNCHANGED <<now, admitted>>
         ELSE /\ limiter' = Admit(l1, n)
              /\ admitted' = Append(Recent(admitted, now), [at |-> now, tokens |-> n])
              /\ UNCHANGED <<now, pc, sleep_until>>

\* wait_for_tokens from the end of its time.sleep to its return
WaitWake(o) ==
    /\ pc = "sleeping"
    /\ now' = sleep_until + o
    /\ limiter' = Admit(HardReset(limiter, now'), call.tokens)
    /\ call' = [call EXCEPT !.woke = now']
    /\ admitted' = Append(Recent(admitted, now'), [at |-> now', tokens |-> call.tokens])
    /\ pc' = "idle"
    /\ UNCHANGED <<sleep_until, ncalls, first_tokens, largest>>

-----------------------------------------------------------------------------
(* A caller that uses one limiter directly and sequentially *)

NoCall == [tokens |-> 0, at |-> 0, elapsed |-> 0, woke |-> 0]

None == [kind |-> "None", call |-> 0]

\* what a method that returns nothing returns
NoValue == [kind |-> "None"]

\* a file that does not exist
Absent == [kind |-> "absent"]

\* BedrockMetricsCollector(): no metric, no method called yet, no file written
CollectorInit ==
    /\ metrics = <<>>
    /\ op = [name |-> "__init__", arg |-> <<>>, io |-> TRUE, nth |-> 1,
             raised |-> "none", value |-> NoValue]
    /\ metrics_file = Absent
    /\ replaced = Absent
    /\ report_file = Absent

\* extract_code_simple has not been called
ExtractUnused ==
    /\ response = <<>>
    /\ written = [texts |-> <<>>, blocks |-> <<>>, closed |-> TRUE]
    /\ extracted = [kind |-> "None"]

\* no get_file_versions call yet
NotFetched == [kind |-> "not fetched"]
Pending == [kind |-> "pending"]
NoVersions ==
    [file |-> <<>>, prior |-> NotFetched, latter |-> NotFetched, original_content |-> "None",
     returned |-> Pending, logged |-> FALSE]

\* main's state before its first statement, for a given commit and path
MainStart(files, path) ==
    /\ commit_files = files
    /\ contact_flow_path = path
    /\ filepaths = <<>>
    /\ mpc = "start"
    /\ versions = NoVersions
    /\ docs = <<>>
    /\ html_results = <<>>
    /\ index_file = Absent

\* main is not run
MainUnused ==
    /\ commit_files = <<>>
    /\ contact_flow_path = <<>>
    /\ filepaths = <<>>
    /\ mpc = "unused"
    /\ versions = NoVersions
    /\ docs = <<>>
    /\ html_results = <<>>
    /\ index_file = Absent

\* nothing of get_flows.py has run
FlowsUnused == ExtractUnused /\ MainUnused

\* the threads that share one limiter
Threads == {"t1", "t2"}

\* a thread that has not called wait_for_tokens
NoThread ==
    [pc |-> "idle", tokens_needed |-> 0, current_time |-> 0, wake_at |-> 0,
     loaded |-> 0, slept |-> FALSE]

\* no thread has called the limiter
ThreadsUnused ==
    /\ thread = [t \in Threads |-> NoThread]
    /\ race = [stored |-> <<>>, overlap |-> FALSE, reset |-> FALSE]

InvokeUnused ==
    /\ ipc = "unused"
    /\ rate_limiter = FALSE
    /\ max_retries = 0
    /\ request_len = 0
    /\ outcomes = <<>>
    /\ attempt = 0
    /\ call_count = 0
    /\ result = None
    /\ backoffs = 0
    /\ backoff_until = 0
    /\ backoff_total = 0

LimiterInit(tpm) ==
    /\ now = 0
    /\ limiter = TokenRateLimiter(tpm, 0)
    /\ pc = "idle"
    /\ sleep_until = 0
    /\ call = NoCall
    /\ ncalls = 0
    /\ first_tokens = 0
    /\ largest = 0
    /\ admitted = <<>>

Init ==
    /\ \E tpm \in Capacities : LimiterInit(tpm)
    /\ ticks = 0
    /\ start_time = -1
    /\ ThreadsUnused
    /\ InvokeUnused
    /\ CollectorInit
    /\ FlowsUnused

\* time passes in the caller, between two calls
Tick(d) ==
    /\ pc = "idle"
    /\ ncalls < MaxCalls
    /\ ticks < MaxTicks
    /\ ticks' = ticks + 1
    /\ now' = now + d
    /\ admitted' = Recent(admitted, now')
    /\ UNCHANGED <<limiter, pc, sleep_until, call, ncalls, first_tokens, largest,
                   start_time, thread, race, invoke_vars, collector_vars, flows_vars>>

\* start_time = time.time()
ReadStart ==
    /\ ncalls = 0
    /\ start_time = -1
    /\ start_time' = now
    /\ UNCHANGED <<now, limiter_vars, ticks, thread, race, invoke_vars, collector_vars,
                   flows_vars>>

\* limiter.wait_for_tokens(n)
Wait(n) ==
    /\ ncalls < MaxCalls
    /\ WaitEnter(n)
    /\ UNCHANGED <<caller_vars, invoke_vars, collector_vars, flows_vars>>

Wake(o) ==
    /\ WaitWake(o)
    /\ UNCHANGED <<caller_vars, invoke_vars, collector_vars, flows_vars>>

Next ==
    \/ \E d \in TickSteps : Tick(d)
    \/ ReadStart
    \/ \E n \in TokenChoices : Wait(n)
    \/ \E o \in Oversleeps : Wake(o)

Spec == Init /\ [][Next]_vars

\* a time.sleep that has started ends: nothing in the program aborts it
FairSpec == Spec /\ WF_vars(\E o \in Oversleeps : Wake(o))

-----------------------------------------------------------------------------
(* TokenRateLimiter.wait_for_tokens called by two threads on one limiter:  *)
(* every read and every write of a field of the limiter is a step of its   *)
(* own, and the steps of the two calls interleave in any order             *)

StoreOverwrite(loaded, tokens_needed) == tokens_needed

\* self.used_tokens += tokens_needed: the value written, from the value loaded
Store(loaded, tokens_needed) == loaded + tokens_needed

\* the tokens_needed of the threads' calls: two of them fit the smaller
\* capacity or not, and the larger one
ThreadTokens == {Tokens(50), Tokens(60)}

InCall(t) == thread[t].pc \notin {"idle", "returned"}

race_frame == <<pc, sleep_until, call, ncalls, first_tokens, largest, admitted, ticks,
                start_time, invoke_vars, collector_vars, flows_vars>>

\* the call and current_time = time.time()
ThreadCall(t, n) ==
    /\ thread[t].pc = "idle"
    /\ thread' = [thread EXCEPT ![t] = [@ EXCEPT !.pc = "if_reset", !.tokens_needed = n,
                                                 !.current_time = now]]
    /\ race' = [race EXCEPT !.overlap = @ \/ \E u \in Threads \ {t} : InCall(u)]
    /\ UNCHANGED <<now, limiter, race_frame>>

\* if current_time - self.window_start_time >= 60
ThreadIfReset(t) ==
    /\ thread[t].pc = "if_reset"
    /\ thread' = [thread EXCEPT ![t].pc =
                      IF thread[t].current_time - limiter.window_start_time >= Window
                        THEN "reset_used" ELSE "if_over"]
    /\ UNCHANGED <<now, limiter, race, race_frame>>

\* self.used_tokens = 0 of the lazy reset
ThreadResetUsed(t) ==
    /\ thread[t].pc = "reset_used"
    /\ limiter' = [limiter EXCEPT !.used_tokens = 0]
    /\ thread' = [thread EXCEPT ![t].pc = "reset_start"]
    /\ race' = [race EXCEPT !.reset = TRUE]
    /\ UNCHANGED <<now, race_frame>>

\* self.window_start_time = current_time
ThreadResetStart(t) ==
    /\ thread[t].pc = "reset_start"
    /\ limiter' = [limiter EXCEPT !.window_start_time = thread[t].current_time]
    /\ thread' = [thread EXCEPT ![t].pc = "if_over"]
    /\ UNCHANGED <<now, race, race_frame>>

\* if self.used_tokens + tokens_needed > self.tokens_per_minute
ThreadIfOver(t) ==
    /\ thread[t].pc = "if_over"
    /\ thread' = [thread EXCEPT ![t].pc =
                      IF OverBudget(limiter, thread[t].tokens_needed)
                        THEN "sleep_time" ELSE "load"]
    /\ UNCHANGED <<now, limiter, race, race_frame>>

\* sleep_time = 60 - (current_time - self.window_start_time) and the start of
\* time.sleep(max(0, sleep_time))
ThreadSleep(t) ==
    /\ thread[t].pc = "sleep_time"
    /\ thread' = [thread EXCEPT ![t] =
                      [@ EXCEPT !.pc = "sleeping", !.slept = TRUE,
                                !.wake_at = now + Max0(SleepTime(limiter, thread[t].current_time))]]
    /\ UNCHANGED <<now, limiter, race, race_frame>>

\* time.sleep returns, not before its time
ThreadWake(t, o) ==
    /\ thread[t].pc = "sleeping"
    /\ now' = (IF now > thread[t].wake_at THEN now ELSE thread[t].wake_at) + o
    /\ thread' = [thread EXCEPT ![t].pc = "hard_used"]
    /\ UNCHANGED <<limiter, race, race_frame>>

\* self.used_tokens = 0 after the sleep
ThreadHardUsed(t) ==
    /\ thread[t].pc = "hard_used"
    /\ limiter' = [limiter EXCEPT !.used_tokens = 0]
    /\ thread' = [thread EXCEPT ![t].pc = "hard_start"]
    /\ race' = [race EXCEPT !.reset = TRUE]
    /\ UNCHANGED <<now, race_frame>>

\* self.window_start_time = time.time()
ThreadHardStart(t) ==
    /\ thread[t].pc = "hard_start"
    /\ limiter' = [limiter EXCEPT !.window_start_time = now]
    /\ thread' = [thread EXCEPT ![t].pc = "load"]
    /\ UNCHANGED <<now, race, race_frame>>

\* self.used_tokens += tokens_needed: the attribute is loaded
ThreadLoad(t) ==
    /\ thread[t].pc = "load"
    /\ thread' = [thread EXCEPT ![t] = [@ EXCEPT !.pc = "store",
                                                 !.loaded = limiter.used_tokens]]
    /\ UNCHANGED <<now, limiter, race, race_frame>>

\* self.used_tokens += tokens_needed: the sum is stored and the call returns
ThreadStore(t) ==
    /\ thread[t].pc = "store"
    /\ limiter' = [limiter EXCEPT !.used_tokens =
                        Store(thread[t].loaded, thread[t].tokens_needed)]
    /\ thread' = [thread EXCEPT ![t].pc = "returned"]
    /\ race' = [race EXCEPT !.stored =
                    Append(@, [thread |-> t, tokens |-> thread[t].tokens_needed])]
    /\ UNCHANGED <<now, race_frame>>

\* time passes while the threads run
ThreadTick(d) ==
    /\ ticks < MaxTicks
    /\ ticks' = ticks + 1
    /\ now' = now + d
    /\ UNCHANGED <<limiter_vars, start_time, thread, race, invoke_vars, collector_vars,
                   flows_vars>>

RaceInit == Init

RaceNext ==
    \/ \E t \in Threads, n \in ThreadTokens : ThreadCall(t, n)
    \/ \E t \in Threads : ThreadIfReset(t)
    \/ \E t \in Threads : ThreadResetUsed(t)
    \/ \E t \in Threads : ThreadResetStart(t)
    \/ \E t \in Threads : ThreadIfOver(t)
    \/ \E t \in Threads : ThreadSleep(t)
    \/ \E t \in Threads, o \in Oversleeps : ThreadWake(t, o)
    \/ \E t \in Threads : ThreadHardUsed(t)
    \/ \E t \in Threads : ThreadHardStart(t)
    \/ \E t \in Threads : ThreadLoad(t)
    \/ \E t \in Threads : ThreadStore(t)
    \/ \E d \in TickSteps : ThreadTick(d)

RaceSpec == RaceInit /\ [][RaceNext]_vars

-----------------------------------------------------------------------------
(* invoke_bedrock_with_retries *)

\* Rough estimation of tokens: len(str(request)) / 4, in quarter tokens
EstimatedTokens(len) == (Tokens(len)) \div 4

IsClientError(out) == out \in {"ThrottlingException", "ClientError"}

IsThrottlingOtherCode(out) == out = "ClientError"

IsThrottlingAnyClientError(out) == out \in {"ThrottlingException", "ClientError"}

IsThrottling(out) == out = "ThrottlingException"

IsLastAttemptOffByOne(a, retries) == a = retries

\* Re-raise the exception if we're out of retries
IsLastAttempt(a, retries) == a = retries - 1

DelayLinear(a, j) == base_delay * (2 * a) * Second + j

\* Calculate delay with exponential backoff and jitter
Delay(a, j) == base_delay * (2 ^ a) * Second + j

Response(n) == [kind |-> "ok", call |-> n]
Error(out, n) == [kind |-> out, call |-> n]

InvokeInit ==
    /\ \E tpm \in Capacities : LimiterInit(tpm)
    /\ ticks = 0
    /\ start_time = -1
    /\ ThreadsUnused
    /\ ipc = "entry"
    /\ rate_limiter \in BOOLEAN
    /\ max_retries \in 0 .. MaxRetries
    /\ request_len \in RequestLens
    /\ outcomes = <<>>
    /\ attempt = 0
    /\ call_count = 0
    /\ result = None
    /\ backoffs = 0
    /\ backoff_until = 0
    /\ backoff_total = 0
    /\ CollectorInit
    /\ FlowsUnused

LoopToInclusive(a) == IF a <= max_retries THEN "attempt" ELSE "returned"

\* the loop is left: range(max_retries) is exhausted and the function ends
\* without a return statement
LoopTo(a) == IF a < max_retries THEN "attempt" ELSE "returned"

\* from the entry of the function to the first iteration of its loop
InvokeEnter ==
    /\ ipc = "entry"
    /\ ipc' = LoopTo(0)
    /\ UNCHANGED <<collector_vars, flows_vars, now, limiter_vars, caller_vars, rate_limiter, max_retries,
                   request_len, outcomes, attempt, call_count, result, backoffs,
                   backoff_until, backoff_total>>

BeginAttemptFirstOnly ==
    /\ ipc = "attempt"
    /\ IF rate_limiter /\ attempt = 0
         THEN /\ WaitEnter(EstimatedTokens(request_len))
              /\ ipc' = IF pc' = "sleeping" THEN "waiting"
                        ELSE IF pc' = "idle" THEN "call" ELSE "raised"
         ELSE /\ ipc' = "call"
              /\ UNCHANGED <<now, limiter_vars>>
    /\ UNCHANGED <<collector_vars, flows_vars, caller_vars, rate_limiter, max_retries, request_len, outcomes,
                   attempt, call_count, result, backoffs, backoff_until, backoff_total>>

\* the start of an attempt: rate_limiter.wait_for_tokens(estimated_tokens)
BeginAttempt ==
    /\ ipc = "attempt"
    /\ IF rate_limiter
         THEN /\ WaitEnter(EstimatedTokens(request_len))
              /\ ipc' = IF pc' = "sleeping" THEN "waiting"
                        ELSE IF pc' = "idle" THEN "call" ELSE "raised"
         ELSE /\ ipc' = "call"
              /\ UNCHANGED <<now, limiter_vars>>
    /\ UNCHANGED <<collector_vars, flows_vars, caller_vars, rate_limiter, max_retries, request_len, outcomes,
                   attempt, call_count, result, backoffs, backoff_until, backoff_total>>

\* the limiter's sleep ends and wait_for_tokens returns
LimiterWake(o) ==
    /\ ipc = "waiting"
    /\ WaitWake(o)
    /\ ipc' = "call"
    /\ UNCHANGED <<collector_vars, flows_vars, caller_vars, rate_limiter, max_retries, request_len, outcomes,
                   attempt, call_count, result, backoffs, backoff_until, backoff_total>>

\* bedrock_runtime.invoke_model(...) and what the function does with its outcome
InvokeModel(out, j) ==
    /\ ipc = "call"
    /\ call_count' = call_count + 1
    /\ outcomes' = Append(outcomes, out)
    /\ IF out = "ok"
         THEN /\ ipc' = "returned"
              /\ result' = Response(call_count')
              /\ UNCHANGED <<backoff_until, backoff_total>>
         ELSE IF IsClientError(out) /\ IsThrottling(out)
                   /\ ~IsLastAttempt(attempt, max_retries)
           THEN /\ ipc' = "backoff"
                /\ backoff_until' = now + Delay(attempt, j)
                /\ backoff_total' = backoff_total + Delay(attempt, j)
                /\ UNCHANGED result
           ELSE /\ ipc' = "raised"
                /\ result' = Error(out, call_count')
                /\ UNCHANGED <<backoff_until, backoff_total>>
    /\ UNCHANGED <<collector_vars, flows_vars, now, limiter_vars, caller_vars, rate_limiter, max_retries,
                   request_len, attempt, backoffs>>

\* time.sleep(delay) ends; continue with the next value of range(max_retries)
BackoffEnd(o) ==
    /\ ipc = "backoff"
    /\ now' = backoff_until + o
    /\ admitted' = Recent(admitted, now')
    /\ backoffs' = backoffs + 1
    /\ attempt' = attempt + 1
    /\ ipc' = LoopTo(attempt')
    /\ UNCHANGED <<collector_vars, flows_vars, limiter, pc, sleep_until, call, ncalls, first_tokens, largest,
                   caller_vars, rate_limiter, max_retries, request_len, outcomes,
                   call_count, result, backoff_until, backoff_total>>

InvokeNext ==
    \/ InvokeEnter
    \/ BeginAttempt
    \/ \E o \in Oversleeps : LimiterWake(o)
    \/ \E out \in Outcomes, j \in Jitters : InvokeModel(out, j)
    \/ \E o \in Oversleeps : BackoffEnd(o)

InvokeSpec == InvokeInit /\ [][InvokeNext]_vars

\* every time.sleep ends and every call of invoke_model returns or raises
InvokeFairSpec == InvokeSpec /\ WF_vars(InvokeNext)

-----------------------------------------------------------------------------
(* BedrockMetricsCollector *)

\* A dict is a function on its keys; a header value is a string, kept as the
\* sequence of its characters; None is the string "None".

LatencyHeader == "x-amzn-bedrock-invocation-latency"
InputHeader == "x-amzn-bedrock-input-token-count"
OutputHeader == "x-amzn-bedrock-output-token-count"
DateHeader == "date"

EmptyDict == [k \in {} |-> 0]

DigitOf == ("0" :> 0) @@ ("1" :> 1) @@ ("2" :> 2) @@ ("3" :> 3) @@ ("4" :> 4)
           @@ ("5" :> 5) @@ ("6" :> 6) @@ ("7" :> 7) @@ ("8" :> 8) @@ ("9" :> 9)

\* str(n) for n >= 0: what the transport writes into a numeric header
RECURSIVE Str(_)
Str(n) ==
    LET d == CHOOSE c \in DOMAIN DigitOf : DigitOf[c] = n % 10 IN
    IF n < 10 THEN <<d>> ELSE Append(Str(n \div 10), d)

\* int(text) succeeds on a non-empty string of decimal digits
IsIntText(text) ==
    /\ Len(text) > 0
    /\ \A i \in 1 .. Len(text) : text[i] \in DOMAIN DigitOf

RECURSIVE IntOf(_)
IntOf(text) ==
    IF text = <<>> THEN 0
    ELSE 10 * IntOf(SubSeq(text, 1, Len(text) - 1)) + DigitOf[text[Len(text)]]

HeaderRaisesNoDefault(headers, key) ==
    IF key \in DOMAIN headers THEN ~IsIntText(headers[key]) ELSE TRUE

\* int(headers.get(key, 0)) raises ValueError
HeaderRaises(headers, key) == key \in DOMAIN headers /\ ~IsIntText(headers[key])

\* int(headers.get(key, 0))
HeaderInt(headers, key) == IF key \in DOMAIN headers THEN IntOf(headers[key]) ELSE 0

\* headers.get('date')
HeaderGet(headers, key) == IF key \in DOMAIN headers THEN headers[key] ELSE "None"

\* the exception add_metric ends in, in the order in which it evaluates, or "none"
AddMetricRaises(md) ==
    IF "HTTPHeaders" \notin DOMAIN md THEN "KeyError"
    ELSE IF "RequestId" \notin DOMAIN md THEN "KeyError"
    ELSE IF "HTTPStatusCode" \notin DOMAIN md THEN "KeyError"
    ELSE IF HeaderRaises(md["HTTPHeaders"], LatencyHeader) THEN "ValueError"
    ELSE IF HeaderRaises(md["HTTPHeaders"], InputHeader) THEN "ValueError"
    ELSE IF HeaderRaises(md["HTTPHeaders"], OutputHeader) THEN "ValueError"
    ELSE IF "RetryAttempts" \notin DOMAIN md THEN "KeyError"
    ELSE "none"

\* the metric dict add_metric builds
Metric(md) ==
    LET headers == md["HTTPHeaders"] IN
    [request_id |-> md["RequestId"],
     http_status |-> md["HTTPStatusCode"],
     latency_ms |-> HeaderInt(headers, LatencyHeader),
     input_tokens |-> HeaderInt(headers, InputHeader),
     output_tokens |-> HeaderInt(headers, OutputHeader),
     retry_attempts |-> md["RetryAttempts"],
     timestamp |-> HeaderGet(headers, DateHeader)]

ListInsertFront(list, x) == <<x>> \o list

\* list.append(x)
ListAppend(list, x) == Append(list, x)

\* sum(m[field] for m in self.metrics)
RECURSIVE SumOf(_, _)
SumOf(ms, field) ==
    IF ms = <<>> THEN 0 ELSE Head(ms)[field] + SumOf(Tail(ms), field)

IsSuccessBelow500(m) == m.http_status < 500

\* m['http_status'] == 200
IsSuccess(m) == m.http_status = 200

\* sum(1 for m in self.metrics if m['http_status'] == 200)
RECURSIVE CountSuccess(_)
CountSuccess(ms) ==
    IF ms = <<>> THEN 0
    ELSE (IF IsSuccess(Head(ms)) THEN 1 ELSE 0) + CountSuccess(Tail(ms))

\* a / b of Python: a float, kept exact as a fraction; b = 0 raises
\* ZeroDivisionError, written as the fraction with den 0
TrueDiv(a, b) == [num |-> a, den |-> b]

\* x * 100 for a fraction x
Times100(x) == [num |-> x.num * 100, den |-> x.den]

NoMetrics == [kind |-> "str", text |-> "No metrics collected"]

SummaryDict(ms) ==
    LET total_calls == Len(ms)
        total_latency == SumOf(ms, "latency_ms")
        total_input_tokens == SumOf(ms, "input_tokens")
        total_output_tokens == SumOf(ms, "output_tokens")
        total_retries == SumOf(ms, "retry_attempts")
    IN  IF total_calls = 0
          THEN [kind |-> "ZeroDivisionError"]
          ELSE [kind |-> "dict",
                total_api_calls |-> total_calls,
                average_latency_ms |-> TrueDiv(total_latency, total_calls),
                total_input_tokens |-> total_input_tokens,
                total_output_tokens |-> total_output_tokens,
                average_input_tokens |-> TrueDiv(total_input_tokens, total_calls),
                average_output_tokens |-> TrueDiv(total_output_tokens, total_calls),
                total_retry_attempts |-> total_retries,
                success_rate |-> Times100(TrueDiv(CountSuccess(ms), total_calls))]

GetSummaryNoSentinel(ms) == SummaryDict(ms)

\* get_summary(): what it returns, or the exception it ends in
GetSummary(ms) == IF ms = <<>> THEN NoMetrics ELSE SummaryDict(ms)

\* the metadata the tests pass: test_bedrock_metrics_collector, test_main
TestHeaders ==
    (LatencyHeader :> Str(100)) @@ (InputHeader :> Str(50))
    @@ (OutputHeader :> Str(75)) @@ (DateHeader :> "2024-01-01")
MainHeaders ==
    (LatencyHeader :> Str(100)) @@ (InputHeader :> Str(50))
    @@ (OutputHeader :> Str(100)) @@ (DateHeader :> "2024-01-01")
Metadata(id, status, headers, retries) ==
    [RequestId |-> id, HTTPStatusCode |-> status, HTTPHeaders |-> headers,
     RetryAttempts |-> retries]
TestMetadata == Metadata("test-id", 200, TestHeaders, 1)

Without(dict, key) == [k \in DOMAIN dict \ {key} |-> dict[k]]

\* response metadata with every required key and integer headers
GoodMetadata ==
    {TestMetadata,
     Metadata("test-request-id", 200, MainHeaders, 0),
     Metadata("req-3", 429, EmptyDict, 0),
     Metadata("req-4", 200, (LatencyHeader :> Str(7)), 1)}

\* response metadata that lacks a required key (the {} of the mocked response
\* among them) or carries a header that is no integer
BadMetadata ==
    {Without(TestMetadata, k) : k \in DOMAIN TestMetadata}
    \cup {EmptyDict,
          Metadata("req-5", 200, (LatencyHeader :> <<"x">>), 0),
          Metadata("req-6", 200, (OutputHeader :> <<>>), 0)}

Metadatas == GoodMetadata \cup BadMetadata

\* whether the open(filename, 'w') of a method succeeds
IOOutcomes == BOOLEAN

\* what the collector's methods never touch
other_vars == <<now, limiter_vars, caller_vars, invoke_vars, flows_vars>>

AddMetricPartial(md) ==
    /\ metrics' = IF AddMetricRaises(md) = "none"
                    THEN ListAppend(metrics, Metric(md))
                    ELSE ListAppend(metrics,
                                    [request_id |-> "None", http_status |-> 0,
                                     latency_ms |-> 0, input_tokens |-> 0,
                                     output_tokens |-> 0, retry_attempts |-> 0,
                                     timestamp |-> "None"])
    /\ op' = [name |-> "add_metric", arg |-> md, io |-> TRUE, nth |-> 1,
              raised |-> AddMetricRaises(md), value |-> NoValue]
    /\ UNCHANGED <<metrics_file, replaced, report_file>>

\* what add_metric(response_metadata) does to the collector
AddMetric(md) ==
    /\ metrics' = IF AddMetricRaises(md) = "none"
                    THEN ListAppend(metrics, Metric(md))
                    ELSE metrics
    /\ op' = [name |-> "add_metric", arg |-> md, io |-> TRUE, nth |-> 1,
              raised |-> AddMetricRaises(md), value |-> NoValue]
    /\ UNCHANGED <<metrics_file, replaced, report_file>>

\* collector.add_metric(response_metadata)
add_metric(md) ==
    /\ Len(metrics) < MaxMetrics
    /\ AddMetric(md)
    /\ UNCHANGED other_vars

get_summary_draining ==
    /\ metrics' = <<>>
    /\ op' = [name |-> "get_summary", arg |-> <<>>, io |-> TRUE,
              nth |-> IF op.name = "get_summary" THEN 2 ELSE 1,
              raised |-> IF GetSummary(metrics).kind \in {"str", "dict"}
                           THEN "none" ELSE GetSummary(metrics).kind,
              value |-> GetSummary(metrics)]
    /\ UNCHANGED <<metrics_file, replaced, report_file, other_vars>>

\* collector.get_summary()
get_summary ==
    /\ op' = [name |-> "get_summary", arg |-> <<>>, io |-> TRUE,
              nth |-> IF op.name = "get_summary" THEN 2 ELSE 1,
              raised |-> IF GetSummary(metrics).kind \in {"str", "dict"}
                           THEN "none" ELSE GetSummary(metrics).kind,
              value |-> GetSummary(metrics)]
    /\ UNCHANGED <<metrics, metrics_file, replaced, report_file, other_vars>>

\* what open(filename, 'w') and json.dump(..., f, indent=2) leave in the file
Dumped(ms, summary) ==
    IF summary.kind \in {"str", "dict"}
      THEN [kind |-> "json", object |-> [detailed_metrics |-> ms, summary |-> summary]]
      ELSE [kind |-> "truncated"]

save_metrics_keeping(io) ==
    LET summary == GetSummary(metrics) IN
    /\ op' = [name |-> "save_metrics", arg |-> <<>>, io |-> io, nth |-> 1,
              raised |-> IF ~io THEN "OSError"
                         ELSE IF summary.kind \in {"str", "dict"} THEN "none"
                         ELSE summary.kind,
              value |-> NoValue]
    /\ metrics_file' = IF ~io \/ metrics_file # Absent THEN metrics_file
                       ELSE Dumped(metrics, summary)
    /\ replaced' = IF io THEN metrics_file ELSE replaced
    /\ UNCHANGED <<metrics, report_file, other_vars>>

\* what save_metrics() does to the collector and its file
SaveMetrics(io) ==
    LET summary == GetSummary(metrics) IN
    /\ op' = [name |-> "save_metrics", arg |-> <<>>, io |-> io, nth |-> 1,
              raised |-> IF ~io THEN "OSError"
                         ELSE IF summary.kind \in {"str", "dict"} THEN "none"
                         ELSE summary.kind,
              value |-> NoValue]
    /\ metrics_file' = IF ~io THEN metrics_file ELSE Dumped(metrics, summary)
    /\ replaced' = IF io THEN metrics_file ELSE replaced
    /\ UNCHANGED <<metrics, report_file>>

\* collector.save_metrics()
save_metrics(io) == SaveMetrics(io) /\ UNCHANGED other_vars

\* collector.generate_html_report(): summary['total_api_calls'] and the other
\* subscripts raise TypeError when summary is a str; the file is opened after
\* the page has been built
GenerateHtmlReport(io) ==
    LET summary == GetSummary(metrics)
        raised == IF summary.kind = "str" THEN "TypeError"
                  ELSE IF summary.kind # "dict" THEN summary.kind
                  ELSE IF ~io THEN "OSError" ELSE "none"
    IN
    /\ op' = [name |-> "generate_html_report", arg |-> <<>>, io |-> io, nth |-> 1,
              raised |-> raised, value |-> NoValue]
    /\ report_file' = IF raised = "none"
                        THEN [kind |-> "html", summary |-> summary,
                              latencies |-> [i \in 1 .. Len(metrics) |-> metrics[i].latency_ms],
                              requestIds |-> [i \in 1 .. Len(metrics) |-> metrics[i].request_id]]
                        ELSE report_file
    /\ UNCHANGED <<metrics, metrics_file, replaced>>

generate_html_report(io) == GenerateHtmlReport(io) /\ UNCHANGED other_vars

CollectorSpecInit ==
    /\ LimiterInit(Tokens(100))
    /\ ticks = 0
    /\ start_time = -1
    /\ ThreadsUnused
    /\ InvokeUnused
    /\ CollectorInit
    /\ FlowsUnused

CollectorNext ==
    \/ \E md \in Metadatas : add_metric(md)
    \/ get_summary
    \/ \E io \in IOOutcomes : save_metrics(io)
    \/ \E io \in IOOutcomes : generate_html_report(io)

CollectorSpec == CollectorSpecInit /\ [][CollectorNext]_vars

-----------------------------------------------------------------------------
(* src/src/get_flows.py: extract_code_simple *)

\* the characters of a response: the backquote, the line break, letters
Backquote == "backquote"
Newline == "\n"

\* the code block marker: three backquotes
Fence == <<Backquote, Backquote, Backquote>>

\* the position of the first occurrence of sep in text, 0 when there is none
Find(text, sep) ==
    LET at == {i \in 1 .. Len(text) - Len(sep) + 1 : SubSeq(text, i, i + Len(sep) - 1) = sep}
    IN  IF at = {} THEN 0 ELSE CHOOSE i \in at : \A j \in at : i <= j

\* text.split(sep)
RECURSIVE Split(_, _)
Split(text, sep) ==
    IF Find(text, sep) = 0 THEN <<text>>
    ELSE <<SubSeq(text, 1, Find(text, sep) - 1)>>
         \o Split(SubSeq(text, Find(text, sep) + Len(sep), Len(text)), sep)

\* text.split(sep, 1)
Split1(text, sep) ==
    IF Find(text, sep) = 0 THEN <<text>>
    ELSE <<SubSeq(text, 1, Find(text, sep) - 1),
           SubSeq(text, Find(text, sep) + Len(sep), Len(text))>>

\* parts[1::2]
OddParts(parts) == [k \in 1 .. (Len(parts) \div 2) |-> parts[2 * k]]

WholeBlock(block) == block

\* the block after its first line break, or the block when it has none
StripFirstLine(block) ==
    IF Find(block, <<Newline>>) # 0 THEN Split1(block, <<Newline>>)[2] ELSE block

\* extract_code_simple(response); slicing and the guarded subscript never
\* raise IndexError
ExtractCodeSimple(text) ==
    LET code_blocks == OddParts(Split(text, Fence))
    IN  [k \in 1 .. Len(code_blocks) |-> StripFirstLine(code_blocks[k])]

\* texts around code blocks: none, a line, a word with a single backquote
Texts == {<<>>, <<"a", Newline>>, <<Backquote, "a">>}

\* code blocks: identifier and code; only a line break; identifier and
\* nothing after it; no line break at all; two lines of code; nothing
Blocks == {<<"p", Newline, "c">>, <<Newline>>, <<"p", Newline>>, <<"c">>,
           <<"p", Newline, "c", Newline, "d">>, <<>>}

\* the response that has the given texts around the given blocks, the last
\* block with or without its closing marker
RECURSIVE Render(_, _, _)
Render(texts, blocks, closed) ==
    IF blocks = <<>> THEN Head(texts)
    ELSE Head(texts) \o Fence \o Head(blocks)
         \o (IF Len(blocks) > 1 \/ closed THEN Fence ELSE <<>>)
         \o Render(Tail(texts), Tail(blocks), closed)

\* the sequences of length n over a set
SeqsOf(S, n) == [1 .. n -> S]

ExtractInit ==
    /\ LimiterInit(Tokens(100))
    /\ ticks = 0
    /\ start_time = -1
    /\ ThreadsUnused
    /\ InvokeUnused
    /\ CollectorInit
    /\ \E n \in 0 .. MaxBlocks :
         \E texts \in SeqsOf(Texts, n + 1), blocks \in SeqsOf(Blocks, n), closed \in BOOLEAN :
            /\ n = 0 => closed
            /\ ~closed => texts[n + 1] = <<>>
            /\ written = [texts |-> texts, blocks |-> blocks, closed |-> closed]
            /\ response = Render(texts, blocks, closed)
    /\ extracted = [kind |-> "None"]
    /\ MainUnused

\* extract_code_simple(response)
extract_code_simple ==
    /\ extracted.kind = "None"
    /\ extracted' = [kind |-> "list", list |-> ExtractCodeSimple(response)]
    /\ UNCHANGED <<response, written, main_vars, now, limiter_vars, caller_vars,
                   invoke_vars, collector_vars>>

ExtractNext == extract_code_simple

ExtractSpec == ExtractInit /\ [][ExtractNext]_vars

-----------------------------------------------------------------------------
(* src/src/get_flows.py: get_file_paths, get_file_versions and main *)

\* text.startswith(prefix)
StartsWith(text, prefix) ==
    /\ Len(prefix) <= Len(text)
    /\ SubSeq(text, 1, Len(prefix)) = prefix

IsListedWhateverStatus(file, path) == StartsWith(file.filename, path)

\* a file of the commit that get_file_paths returns
IsListed(file, path) ==
    /\ StartsWith(file.filename, path)
    /\ file.status \in {"added", "modified"}

\* the list get_file_paths builds from commit.files
GetFilePaths(files, path) ==
    LET listed == SelectSeq(files, LAMBDA file : IsListed(file, path))
    IN  [i \in 1 .. Len(listed) |-> listed[i].filename]

\* base64.b64decode(content).decode('utf-8') of the contents GitHub can send;
\* "/w==" is the byte 0xff, which is not UTF-8
B64Decode ==
    ("eyJ0ZXN0IjogInZhbHVlIn0=" :> "{\"test\": \"value\"}") @@ ("WzFd" :> "[1]")

Contents == {"eyJ0ZXN0IjogInZhbHVlIn0=", "WzFd", "/w=="}

\* what api.repos.get_content can do: return a response with content, or
\* raise an error that has a status attribute or has none
FetchOutcomes ==
    {[kind |-> "ok", content |-> c, has_status |-> FALSE, status |-> 0] : c \in Contents}
    \cup {[kind |-> "error", content |-> "", has_status |-> TRUE, status |-> st] :
            st \in {404, 500}}
    \cup {[kind |-> "error", content |-> "", has_status |-> FALSE, status |-> 0]}

\* the response is there and its content decodes
Decodes(r) == r.kind = "ok" /\ r.content \in DOMAIN B64Decode

IsNotFoundNever(r) == FALSE

\* hasattr(e, 'status') and e.status == 404
IsNotFound(r) == r.kind = "error" /\ r.has_status /\ r.status = 404

\* the empty-document sentinel
EmptyDocument == "{}"

Tuple(original, modified) == [kind |-> "tuple", original |-> original, modified |-> modified]

VersionsMissingNever(ret) == FALSE

\* original is None or modified is None
VersionsMissing(ret) == ret.original = "None" \/ ret.modified = "None"

\* the documents of the commit: two contact flows, a removed and a renamed
\* one, a file of a sibling directory, a file outside
CommitFiles ==
    {[filename |-> <<"f", "/", "a">>, status |-> "modified"],
     [filename |-> <<"f", "/", "b">>, status |-> "added"],
     [filename |-> <<"f", "/", "c">>, status |-> "removed"],
     [filename |-> <<"f", "/", "d">>, status |-> "renamed"],
     [filename |-> <<"f", "x", "/", "a">>, status |-> "modified"],
     [filename |-> <<"x", "/", "f", "/", "a">>, status |-> "added"]}

Prefixes == {<<"f">>, <<"f", "/">>}

\* the response metadata compare_contact_flows returns to main
MainMetadatas == {TestMetadata, EmptyDict}

MainInit ==
    /\ LimiterInit(Tokens(100))
    /\ ticks = 0
    /\ start_time = -1
    /\ ThreadsUnused
    /\ InvokeUnused
    /\ CollectorInit
    /\ ExtractUnused
    /\ \E n \in 0 .. MaxFiles :
         \E files \in SeqsOf(CommitFiles, n), path \in Prefixes :
            /\ \A i, j \in 1 .. n : files[i] = files[j] => i = j
            /\ MainStart(files, path)

\* what main's steps leave alone
outside_main == <<now, limiter_vars, caller_vars, invoke_vars, extract_vars,
                  commit_files, contact_flow_path>>

Entry(file) == [file |-> file, failed |-> "", compared |-> FALSE]

\* f"{base_filename}.html" for fileName = file.split("/")[-1] and
\* base_filename = os.path.basename(fileName.split(".")[0])
PageName(file) ==
    LET parts == Split(file, <<"/">>)
    IN  Head(Split(parts[Len(parts)], <<".">>)) \o <<".", "h", "t", "m", "l">>

Failed(entries, kind) == [entries EXCEPT ![Len(entries)].failed = kind]

\* filepaths = get_file_paths(...): a failing get_commit raises out of main
get_file_paths(ok) ==
    /\ mpc = "start"
    /\ filepaths' = IF ok THEN GetFilePaths(commit_files, contact_flow_path) ELSE filepaths
    /\ mpc' = IF ok THEN "loop" ELSE "raised"
    /\ UNCHANGED <<versions, docs, html_results, index_file, collector_vars, outside_main>>

\* the next document of the loop: get_file_versions is entered and looks the
\* commit up, outside its try statement
get_commit(ok) ==
    /\ mpc = "loop"
    /\ Len(docs) < Len(filepaths)
    /\ versions' = [NoVersions EXCEPT !.file = filepaths[Len(docs) + 1],
                                      !.returned = IF ok THEN Pending ELSE [kind |-> "raised"]]
    /\ docs' = IF ok THEN Append(docs, Entry(filepaths[Len(docs) + 1]))
              ELSE Failed(Append(docs, Entry(filepaths[Len(docs) + 1])), "commit")
    /\ mpc' = IF ok THEN "original" ELSE "raised"
    /\ UNCHANGED <<filepaths, html_results, index_file, collector_vars, outside_main>>

\* get_file_versions fetches and decodes the content at the parent commit;
\* when that fails otherwise than with status 404 it logs the error and
\* returns (None, None), and main exits
get_original(r) ==
    /\ mpc = "original"
    /\ IF Decodes(r) \/ IsNotFound(r)
         THEN /\ versions' = [versions EXCEPT
                     !.prior = r,
                     !.original_content = IF Decodes(r) THEN B64Decode[r.content]
                                          ELSE EmptyDocument]
              /\ mpc' = "modified"
              /\ UNCHANGED docs
         ELSE /\ versions' = [versions EXCEPT !.prior = r, !.logged = TRUE,
                                              !.returned = Tuple("None", "None")]
              /\ mpc' = IF VersionsMissing(versions'.returned) THEN "exited" ELSE "save"
              /\ docs' = Failed(docs, "versions")
    /\ UNCHANGED <<filepaths, html_results, index_file, collector_vars, outside_main>>

\* get_file_versions fetches and decodes the content at the commit and
\* returns both contents, or logs the error and returns (None, None)
get_modified(r) ==
    /\ mpc = "modified"
    /\ versions' = [versions EXCEPT
            !.latter = r,
            !.logged = ~Decodes(r),
            !.returned = IF Decodes(r) THEN Tuple(versions.original_content, B64Decode[r.content])
                         ELSE Tuple("None", "None")]
    /\ mpc' = IF VersionsMissing(versions'.returned) THEN "exited" ELSE "save"
    /\ docs' = IF Decodes(r) THEN docs ELSE Failed(docs, "versions")
    /\ UNCHANGED <<filepaths, html_results, index_file, collector_vars, outside_main>>

\* save_versions(original, modified, original_path, modified_path)
save_versions(io) ==
    /\ mpc = "save"
    /\ mpc' = IF io THEN "compare" ELSE "raised"
    /\ docs' = IF io THEN docs ELSE Failed(docs, "save")
    /\ UNCHANGED <<filepaths, versions, html_results, index_file, collector_vars, outside_main>>

\* compare_contact_flows(...) returns the page and the response metadata or
\* raises; then html_results.append(...) and metrics_collector.add_metric(...)
Compared(ok, md) ==
    /\ IF ok
         THEN /\ html_results' = Append(html_results, PageName(versions.file))
              /\ AddMetric(md)
              /\ mpc' = IF AddMetricRaises(md) = "none" THEN "loop" ELSE "raised"
              /\ docs' = IF AddMetricRaises(md) = "none"
                          THEN [docs EXCEPT ![Len(docs)].compared = TRUE]
                          ELSE Failed([docs EXCEPT ![Len(docs)].compared = TRUE], "add_metric")
         ELSE /\ mpc' = "raised"
              /\ docs' = Failed([docs EXCEPT ![Len(docs)].compared = TRUE], "compare")
              /\ UNCHANGED <<html_results, collector_vars>>
    /\ UNCHANGED <<filepaths, versions, index_file, outside_main>>

\* the call of compare_contact_flows and what main does with its result, in
\* one step: the model invocation inside it is not looked into
compare_contact_flows(ok, md) ==
    /\ mpc = "compare"
    /\ Compared(ok, md)

\* after the loop: metrics_collector.save_metrics()
main_save_metrics(io) ==
    /\ mpc = "loop"
    /\ Len(docs) = Len(filepaths)
    /\ SaveMetrics(io)
    /\ mpc' = IF op'.raised = "none" THEN "report" ELSE "raised"
    /\ UNCHANGED <<filepaths, versions, docs, html_results, index_file, outside_main>>

\* metrics_collector.generate_html_report()
main_generate_html_report(io) ==
    /\ mpc = "report"
    /\ GenerateHtmlReport(io)
    /\ mpc' = IF op'.raised = "none" THEN "index" ELSE "raised"
    /\ UNCHANGED <<filepaths, versions, docs, html_results, index_file, outside_main>>

\* if html_results: write index.html
write_index(io) ==
    /\ mpc = "index"
    /\ index_file' = IF html_results # <<>> /\ io
                       THEN [kind |-> "html", links |-> html_results]
                       ELSE index_file
    /\ mpc' = IF html_results # <<>> /\ ~io THEN "raised" ELSE "done"
    /\ UNCHANGED <<filepaths, versions, docs, html_results, collector_vars, outside_main>>

MainNext ==
    \/ \E ok \in BOOLEAN : get_file_paths(ok)
    \/ \E ok \in BOOLEAN : get_commit(ok)
    \/ \E r \in FetchOutcomes : get_original(r)
    \/ \E r \in FetchOutcomes : get_modified(r)
    \/ \E io \in IOOutcomes : save_versions(io)
    \/ \E ok \in BOOLEAN, md \in MainMetadatas : compare_contact_flows(ok, md)
    \/ \E io \in IOOutcomes : main_save_metrics(io)
    \/ \E io \in IOOutcomes : main_generate_html_report(io)
    \/ \E io \in IOOutcomes : write_index(io)

MainSpec == MainInit /\ [][MainNext]_vars

-----------------------------------------------------------------------------
(* main with the model invocation of compare_contact_flows step by step:   *)
(* the limiter it constructs and the attempts of invoke_bedrock_with_retries *)

\* the default of invoke_bedrock_with_retries' max_retries, which
\* compare_contact_flows does not override; the model stops at MaxAttempts
DefaultMaxRetries == 10
CappedRetries == IF DefaultMaxRetries < MaxAttempts THEN DefaultMaxRetries ELSE MaxAttempts

\* TokenRateLimiter(tokens_per_minute=400000)
MainTokensPerMinute == 400000

\* len(str(request)) of a comparison request: 250000 estimated tokens, of
\* which one fits the minute and two do not, and 450000, which never fits
PromptLens == {1000000, 1800000}

SharedLimiter(l, t) == l

\* rate_limiter = TokenRateLimiter(tokens_per_minute=400000)
FreshLimiter(l, t) == TokenRateLimiter(Tokens(MainTokensPerMinute), t)

\* the response metadata of the invocation for a document: that of the tests,
\* with the document as request id, or the {} of the mocked response
DocMetadatas(file) == {Metadata(file, 200, TestHeaders, 0), EmptyDict}

\* the k-th document of a commit
Document(k) == [filename |-> <<"f", "/">> \o Str(k), status |-> "modified"]

BatchInit ==
    /\ LimiterInit(Tokens(MainTokensPerMinute))
    /\ ticks = 0
    /\ start_time = -1
    /\ ThreadsUnused
    /\ InvokeUnused
    /\ CollectorInit
    /\ ExtractUnused
    /\ \E n \in 1 .. MaxDocs : MainStart([k \in 1 .. n |-> Document(k)], <<"f", "/">>)

\* compare_contact_flows up to the call of invoke_bedrock_with_retries:
\* get_aws_clients(), the limiter, and the entry of the function with its
\* default max_retries
compare_begin(ok, len) ==
    /\ mpc = "compare"
    /\ IF ok
         THEN /\ limiter' = FreshLimiter(limiter, now)
              /\ pc' = "idle"
              /\ sleep_until' = 0
              /\ call' = NoCall
              /\ ncalls' = 0
              /\ first_tokens' = 0
              /\ largest' = 0
              /\ ipc' = "entry"
              /\ rate_limiter' = TRUE
              /\ max_retries' = CappedRetries
              /\ request_len' = len
              /\ outcomes' = <<>>
              /\ attempt' = 0
              /\ call_count' = 0
              /\ result' = None
              /\ backoffs' = 0
              /\ backoff_until' = 0
              /\ backoff_total' = 0
              /\ mpc' = "invoke"
              /\ UNCHANGED docs
         ELSE /\ mpc' = "raised"
              /\ docs' = Failed(docs, "clients")
              /\ UNCHANGED <<limiter, pc, sleep_until, call, ncalls, first_tokens, largest,
                             invoke_vars>>
    /\ UNCHANGED <<now, admitted, caller_vars, collector_vars, extract_vars, commit_files,
                   contact_flow_path, filepaths, versions, html_results, index_file>>

\* invoke_bedrock_with_retries has returned or raised: the rest of
\* compare_contact_flows (parsing, extract_code_simple, the page) succeeds or
\* raises, and main appends the page and adds the metric
compare_end(ok, md) ==
    /\ mpc = "invoke"
    /\ ipc \in {"returned", "raised"}
    /\ Compared(ok /\ ipc = "returned" /\ result.kind = "ok", md)

BatchNext ==
    \/ \E ok \in BOOLEAN : get_file_paths(ok)
    \/ \E ok \in BOOLEAN : get_commit(ok)
    \/ \E r \in FetchOutcomes : get_original(r)
    \/ \E r \in FetchOutcomes : get_modified(r)
    \/ \E io \in IOOutcomes : save_versions(io)
    \/ \E ok \in BOOLEAN, len \in PromptLens : compare_begin(ok, len)
    \/ InvokeEnter
    \/ BeginAttempt
    \/ \E o \in Oversleeps : LimiterWake(o)
    \/ \E out \in Outcomes, j \in Jitters : InvokeModel(out, j)
    \/ \E o \in Oversleeps : BackoffEnd(o)
    \/ \E ok \in BOOLEAN, md \in DocMetadatas(versions.file) : compare_end(ok, md)
    \/ \E io \in IOOutcomes : main_save_metrics(io)
    \/ \E io \in IOOutcomes : main_generate_html_report(io)
    \/ \E io \in IOOutcomes : write_index(io)

BatchSpec == BatchInit /\ [][BatchNext]_vars

-----------------------------------------------------------------------------
(* Claims about invoke_bedrock_with_retries, checked under InvokeSpec *)

\* the function has returned or raised
Done == ipc \in {"returned", "raised"}

\* the first k underlying calls raised ThrottlingException
Throttled(k) ==
    /\ Len(outcomes) >= k
    /\ \A i \in 1 .. k : outcomes[i] = "ThrottlingException"

\* C1: for max_retries > k, when the underlying call raises ThrottlingException
\* on its first k calls and succeeds on call k+1, the function returns the
\* response of call k+1 after exactly k+1 underlying calls and calls no more:
\* after k throttled calls it is still running, on its way to call k+1, and
\* once call k+1 has succeeded it has returned that response and has stopped.
C1_ReturnsFirstSuccess ==
    \A k \in 0 .. MaxRetries - 1 :
        /\ (max_retries > k /\ Throttled(k) /\ Len(outcomes) = k)
            => /\ ~Done
               /\ call_count = k
               /\ ENABLED InvokeNext
        /\ (max_retries > k /\ Throttled(k) /\ Len(outcomes) > k /\ outcomes[k + 1] = "ok")
            => /\ ipc = "returned"
               /\ result = Response(k + 1)
               /\ call_count = k + 1
               /\ ~ENABLED InvokeNext

\* the test's case: one throttled call, then a success, with max_retries = 2
C1_Witness ==
    /\ max_retries = 2
    /\ outcomes = <<"ThrottlingException", "ok">>
    /\ ipc = "returned"
    /\ result = Response(2)
    /\ call_count = 2
    /\ backoffs = 1

\* C2: with max_retries = N >= 1 and an underlying call that raises
\* ThrottlingException on every call, the function raises after exactly N
\* underlying calls, and what it raises is the error of the N-th call.
C2_RaisesAfterNThrottles ==
    (max_retries >= 1 /\ \A i \in 1 .. Len(outcomes) : outcomes[i] = "ThrottlingException")
        => /\ ipc # "returned"
           /\ call_count <= max_retries
           /\ ipc = "raised" <=> call_count = max_retries
           /\ ipc = "raised" => /\ result = Error("ThrottlingException", max_retries)
                                /\ ~ENABLED InvokeNext
           /\ ipc # "raised" => ENABLED InvokeNext

\* every one of the largest number of attempts was throttled
C2_Witness ==
    /\ max_retries = MaxRetries
    /\ Throttled(MaxRetries)
    /\ ipc = "raised"
    /\ call_count = MaxRetries
    /\ result = Error("ThrottlingException", MaxRetries)

\* C3: a failure of the underlying call that is not a ThrottlingException is
\* propagated unchanged at once: the function raises it in the step of the
\* call, no backoff sleep follows it and no underlying call is made after it.
C3_NonThrottlingPropagates ==
    \A i \in 1 .. Len(outcomes) :
        outcomes[i] \in {"ClientError", "Exception"}
            => /\ i = Len(outcomes)
               /\ ipc = "raised"
               /\ result = Error(outcomes[i], i)
               /\ call_count = i
               /\ backoffs = i - 1
               /\ ~ENABLED InvokeNext

\* the stated case: a non-throttling failure on the first attempt of 5
C3_Witness ==
    /\ max_retries = 5
    /\ outcomes = <<"ClientError">>
    /\ ipc = "raised"
    /\ result = Error("ClientError", 1)
    /\ call_count = 1
    /\ backoffs = 0

\* C12: with a rate limiter supplied, every underlying invoke_model call is
\* preceded in its attempt by exactly one wait_for_tokens call on the limiter,
\* always with the same estimate len(str(request)) / 4; with no limiter
\* supplied no limiter operation happens.
C12_OneWaitPerCall ==
    /\ rate_limiter
        => /\ ncalls = call_count + (IF ipc \in {"waiting", "call"} THEN 1 ELSE 0)
           /\ ncalls > 0 => /\ 4 * call.tokens = Tokens(request_len)
                            /\ first_tokens = call.tokens
                            /\ largest = call.tokens
    /\ ~rate_limiter
        => /\ ncalls = 0
           /\ pc = "idle"
           /\ admitted = <<>>
           /\ limiter.used_tokens = 0
           /\ limiter.window_start_time = 0

\* three attempts with a limiter, the last of which had to sleep in the limiter
C12_Witness ==
    /\ rate_limiter
    /\ Done
    /\ call_count = 3
    /\ ncalls = 3
    /\ backoffs = 2
    /\ call.woke > call.at

\* C13: after a throttled attempt with 0-based index a that is not the last
\* allowed one, the function sleeps base_delay * 2^a + j seconds, 0 <= j < 0.1,
\* before the next attempt: the whole seconds of the delay are 1, 2, 4, ...
C13_ExponentialBackoff ==
    /\ [](ipc = "backoff"
            => /\ outcomes[call_count] = "ThrottlingException"
               /\ attempt = call_count - 1
               /\ attempt < max_retries - 1
               /\ backoff_until - now >= (2 ^ attempt) * Second
               /\ 10 * (backoff_until - now - (2 ^ attempt) * Second) < Second
               /\ (backoff_until - now) \div Second = 2 ^ attempt)
    /\ [][ipc = "backoff" => /\ now' >= backoff_until
                             /\ ipc' = "attempt"
                             /\ attempt' = attempt + 1]_vars
    /\ [][(ipc = "call" /\ outcomes'[call_count'] = "ThrottlingException"
                        /\ attempt < max_retries - 1)
            => ipc' = "backoff"]_vars

\* the third consecutive throttled attempt: a delay of 4 seconds and a jitter
C13_Witness ==
    /\ ipc = "backoff"
    /\ attempt = 2
    /\ backoffs = 2
    /\ backoff_until - now = 4 * Second + 1

\* C27: whatever the underlying calls do, the function never makes more than
\* max_retries underlying invoke_model calls, and it ends (it returns or
\* raises) after finitely many steps.  Checked under InvokeFairSpec.
C27_BoundedAndTerminates ==
    /\ [](call_count <= max_retries /\ Len(outcomes) = call_count)
    /\ <>[](Done /\ ~ENABLED InvokeNext)

\* the last allowed attempt of the largest number succeeded after throttles
C27_Witness ==
    /\ max_retries = MaxRetries
    /\ call_count = MaxRetries
    /\ Throttled(MaxRetries - 1)
    /\ outcomes[MaxRetries] = "ok"
    /\ ipc = "returned"

\* C28: for every max_retries, max_retries <= 0 included, the function either
\* returns a response produced by the underlying call or fails with an error:
\* it never returns without a response.
C28_ResponseOrError ==
    /\ ipc = "returned"
        => /\ result.kind = "ok"
           /\ call_count >= 1
           /\ result = Response(call_count)
           /\ outcomes[call_count] = "ok"
    /\ ipc = "raised" => result.kind \in Outcomes \ {"ok"}

\* C29: a backoff sleep happens only between a throttled attempt and the next
\* attempt: none follows a success, a non-throttling failure or a throttled
\* last allowed attempt, so an ended execution that made at least one
\* underlying call made one backoff sleep fewer than underlying calls.
C29_SleepsBetweenAttempts ==
    /\ []((Done /\ call_count >= 1) => backoffs = call_count - 1)
    /\ [](ipc = "backoff" => backoffs = call_count - 1)
    /\ [][backoffs' # backoffs
            => /\ backoffs' = backoffs + 1
               /\ ipc = "backoff"
               /\ outcomes[call_count] = "ThrottlingException"
               /\ call_count < max_retries
               /\ ipc' = "attempt"]_vars
    /\ [][(/\ ipc = "call"
           /\ \/ outcomes'[call_count'] # "ThrottlingException"
              \/ call_count' = max_retries)
            => /\ ipc' \in {"returned", "raised"}
               /\ backoffs' = backoffs
               /\ backoff_total' = backoff_total]_vars

\* three throttled attempts of three: two sleeps, none after the last
C29_Witness ==
    /\ max_retries = 3
    /\ outcomes = <<"ThrottlingException", "ThrottlingException", "ThrottlingException">>
    /\ ipc = "raised"
    /\ backoffs = 2

\* every one of the max_retries >= 1 attempts was throttled, no limiter given
AllThrottledNoLimiter ==
    /\ ~rate_limiter
    /\ max_retries >= 1
    /\ ipc = "raised"
    /\ Len(outcomes) = max_retries
    /\ Throttled(max_retries)

\* the part of the total backoff time above 2^(N-1) - 1 seconds
TotalJitter == backoff_total - (2 ^ (max_retries - 1) - 1) * Second

NoWindowReset == limiter.window_start_time = 0

\* the attempts that have passed wait_for_tokens
Passed == call_count + (IF ipc = "call" THEN 1 ELSE 0)

\* C35: with a rate limiter the throttled attempts consume budget too: while
\* no window reset has occurred, used_tokens has grown by the estimated token
\* cost (len(str(request)) / 4) once per underlying call, so an invoke that
\* made m calls leaves it at m times the cost.
C35_EveryAttemptConsumes ==
    /\ (rate_limiter /\ NoWindowReset /\ ipc # "raised")
            => 4 * limiter.used_tokens = Passed * Tokens(request_len)
    /\ (rate_limiter /\ NoWindowReset /\ ipc = "returned")
            => 4 * limiter.used_tokens = call_count * Tokens(request_len)
    /\ (rate_limiter /\ NoWindowReset /\ ipc = "raised" /\ pc = "idle")
            => 4 * limiter.used_tokens = call_count * Tokens(request_len)

\* an invoke that was throttled once and then answered: two costs are used
C35_Witness ==
    /\ rate_limiter
    /\ ipc = "returned"
    /\ NoWindowReset
    /\ call_count = 2
    /\ outcomes = <<"ThrottlingException", "ok">>
    /\ limiter.used_tokens = 2 * EstimatedTokens(request_len)
    /\ limiter.used_tokens > EstimatedTokens(request_len)

-----------------------------------------------------------------------------
(* Claims about BedrockMetricsCollector, checked under CollectorSpec *)

\* the method called last; no state has changed since it ended
Called(name) == op.name = name

\* the sum of a field over the recorded metrics, by index
RECURSIVE TotalUpTo(_, _)
TotalUpTo(field, i) == IF i = 0 THEN 0 ELSE metrics[i][field] + TotalUpTo(field, i - 1)
Total(field) == TotalUpTo(field, Len(metrics))

\* the number of recorded metrics with http_status 200
Successes == Cardinality({i \in 1 .. Len(metrics) : metrics[i].http_status = 200})

\* the fraction x of a summary equals a / b
Equals(x, a, b) == x.den > 0 /\ x.num * b = a * x.den

\* C14: get_summary on a collector with no metric returns the sentinel "No
\* metrics collected" and raises nothing (no division by the call count is
\* reached); on a collector with metrics every divisor is the call count >= 1.
C14_EmptySummarySentinel ==
    Called("get_summary")
        => /\ op.raised = "none"
           /\ metrics = <<>>
                => op.value = [kind |-> "str", text |-> "No metrics collected"]
           /\ metrics # <<>>
                => /\ op.value.kind = "dict"
                   /\ op.value.average_latency_ms.den = Len(metrics)
                   /\ op.value.average_input_tokens.den = Len(metrics)
                   /\ op.value.average_output_tokens.den = Len(metrics)
                   /\ op.value.success_rate.den = Len(metrics)
                   /\ Len(metrics) >= 1

\* get_summary has returned the sentinel on an empty collector
C14_Witness ==
    /\ Called("get_summary")
    /\ metrics = <<>>
    /\ op.value.kind = "str"
    /\ op.raised = "none"

\* C15: get_summary on n >= 1 metrics returns total_api_calls = n, the totals
\* of input tokens, output tokens and retry attempts, the three averages
\* sum / n, and success_rate = 100 * (metrics with http_status 200) / n, which
\* lies between 0 and 100.
C15_SummaryValues ==
    (Called("get_summary") /\ metrics # <<>>)
        => LET n == Len(metrics)
               v == op.value
           IN  /\ v.kind = "dict"
               /\ v.total_api_calls = n
               /\ v.total_input_tokens = Total("input_tokens")
               /\ v.total_output_tokens = Total("output_tokens")
               /\ v.total_retry_attempts = Total("retry_attempts")
               /\ Equals(v.average_latency_ms, Total("latency_ms"), n)
               /\ Equals(v.average_input_tokens, Total("input_tokens"), n)
               /\ Equals(v.average_output_tokens, Total("output_tokens"), n)
               /\ Equals(v.success_rate, 100 * Successes, n)
               /\ v.success_rate.num >= 0
               /\ v.success_rate.num <= 100 * v.success_rate.den

\* the test's case: one metric with latency 100, input 50, output 75, status 200
C15_Witness ==
    /\ Called("get_summary")
    /\ Len(metrics) = 1
    /\ metrics[1].latency_ms = 100
    /\ metrics[1].input_tokens = 50
    /\ metrics[1].output_tokens = 75
    /\ metrics[1].http_status = 200
    /\ op.value.total_api_calls = 1
    /\ op.value.total_input_tokens = 50
    /\ Equals(op.value.average_latency_ms, 100, 1)
    /\ Equals(op.value.success_rate, 100, 1)

\* C16: two consecutive get_summary calls with no add_metric between them
\* return equal results, on the empty collector and on every non-empty one.
C16_SummaryIdempotent ==
    [][(Called("get_summary") /\ op'.name = "get_summary")
        => /\ op'.value = op.value
           /\ op'.raised = op.raised]_vars

\* a second get_summary in a row has returned on a collector with two metrics
C16_Witness ==
    /\ Called("get_summary")
    /\ op.nth = 2
    /\ Len(metrics) = 2
    /\ op.value.kind = "dict"

\* C17: add_metric never raises, whatever response metadata it is given.
C17_AddMetricNeverRaises ==
    Called("add_metric") => op.raised = "none"

\* decimal texts of the numbers a header can carry
NumericTexts == {Str(n) : n \in 0 .. 100}

\* the stored field is 0 for an absent header and the number whose decimal
\* text the header is for a present one
Stored(field, key) ==
    LET headers == op.arg["HTTPHeaders"]
        m == metrics[Len(metrics)]
    IN  IF key \in DOMAIN headers THEN headers[key] = Str(m[field]) ELSE m[field] = 0

\* C18: add_metric on metadata whose latency, input-token or output-token
\* header is absent succeeds and stores 0 in that field; a present header is
\* stored as its integer value.
C18_HeaderDefaults ==
    (/\ Called("add_metric")
     /\ {"RequestId", "HTTPStatusCode", "HTTPHeaders", "RetryAttempts"} \subseteq DOMAIN op.arg
     /\ \A key \in DOMAIN op.arg["HTTPHeaders"] \ {DateHeader} :
            op.arg["HTTPHeaders"][key] \in NumericTexts)
        => /\ op.raised = "none"
           /\ metrics # <<>>
           /\ Stored("latency_ms", LatencyHeader)
           /\ Stored("input_tokens", InputHeader)
           /\ Stored("output_tokens", OutputHeader)

\* a metric stored from metadata with a latency header and no token headers
C18_Witness ==
    /\ Called("add_metric")
    /\ op.raised = "none"
    /\ DOMAIN op.arg["HTTPHeaders"] = {LatencyHeader}
    /\ metrics[Len(metrics)].latency_ms = 7
    /\ metrics[Len(metrics)].input_tokens = 0
    /\ metrics[Len(metrics)].output_tokens = 0

\* C19: metrics is append-only and insertion-ordered: a successful add_metric
\* adds its metric at the end, and no method removes, changes or moves an
\* earlier entry.
C19_AppendOnly ==
    [][/\ Len(metrics') >= Len(metrics)
       /\ SubSeq(metrics', 1, Len(metrics)) = metrics
       /\ IF op'.name = "add_metric" /\ op'.raised = "none"
            THEN /\ Len(metrics') = Len(metrics) + 1
                 /\ metrics'[Len(metrics')].request_id = op'.arg["RequestId"]
            ELSE metrics' = metrics]_vars

\* two metrics of different requests, stored in the order of their calls
C19_Witness ==
    /\ Called("add_metric")
    /\ op.raised = "none"
    /\ Len(metrics) = 2
    /\ metrics[1].request_id # metrics[2].request_id
    /\ metrics[2].request_id = op.arg["RequestId"]

\* the summary v is the summary of the recorded metrics, which are not empty
IsSummaryOfMetrics(v) ==
    /\ v.kind = "dict"
    /\ v.total_api_calls = Len(metrics)
    /\ v.total_input_tokens = Total("input_tokens")
    /\ v.total_output_tokens = Total("output_tokens")
    /\ v.total_retry_attempts = Total("retry_attempts")
    /\ Equals(v.average_latency_ms, Total("latency_ms"), Len(metrics))
    /\ Equals(v.average_input_tokens, Total("input_tokens"), Len(metrics))
    /\ Equals(v.average_output_tokens, Total("output_tokens"), Len(metrics))
    /\ Equals(v.success_rate, 100 * Successes, Len(metrics))

\* C21: save_metrics writes an object with exactly the keys detailed_metrics
\* and summary: detailed_metrics is the whole metric list in insertion order,
\* summary is what get_summary returns in the same state (the sentinel string
\* for an empty collector), and nothing of the file's earlier content is kept.
C21_SavedObject ==
    Called("save_metrics")
        => /\ op.io <=> op.raised = "none"
           /\ op.io
                => /\ metrics_file.kind = "json"
                   /\ DOMAIN metrics_file.object = {"detailed_metrics", "summary"}
                   /\ metrics_file.object.detailed_metrics = metrics
                   /\ IF metrics = <<>>
                        THEN metrics_file.object.summary
                                = [kind |-> "str", text |-> "No metrics collected"]
                        ELSE IsSummaryOfMetrics(metrics_file.object.summary)

\* a file saved for an empty collector has been overwritten with two metrics
C21_Witness ==
    /\ Called("save_metrics")
    /\ op.raised = "none"
    /\ replaced.kind = "json"
    /\ replaced.object.detailed_metrics = <<>>
    /\ replaced.object.summary.kind = "str"
    /\ Len(metrics) = 2
    /\ metrics_file.object.detailed_metrics = metrics
    /\ metrics_file.object.summary.total_api_calls = 2

\* C20: generate_html_report does not fail when no metric has been recorded:
\* it writes the report file.
C20_EmptyReportWritten ==
    (Called("generate_html_report") /\ metrics = <<>> /\ op.io)
        => /\ op.raised = "none"
           /\ report_file.kind = "html"

------------------------------------------------------------------------\* C37: get_summary, save_metrics and generate_html_report leave the metrics
\* sequence as it is, whether they return or raise.
C37_ReadersLeaveMetrics ==
    [][op'.name \in {"get_summary", "save_metrics", "generate_html_report"}
        => /\ metrics' = metrics
           /\ op'.raised \in {"none", "OSError", "TypeError"}]_vars

\* a save_metrics that failed on a collector with two metrics
C37_Witness ==
    /\ Called("save_metrics")
    /\ op.raised = "OSError"
    /\ Len(metrics) = 2
    /\ metrics[1].request_id = "test-id"

RequiredKeys == {"RequestId", "HTTPStatusCode", "HTTPHeaders", "RetryAttempts"}

\* a required metadata key is missing
MissingKey(md) == ~(RequiredKeys \subseteq DOMAIN md)

\* a latency or token header is present and is not the text of an integer
NotInteger(md) ==
    /\ "HTTPHeaders" \in DOMAIN md
    /\ \E key \in {LatencyHeader, InputHeader, OutputHeader} \cap DOMAIN md["HTTPHeaders"] :
          md["HTTPHeaders"][key] \notin NumericTexts

\* C38: add_metric is all-or-nothing: when it fails (a required metadata key
\* is missing or a header value is not an integer) the metrics sequence is what
\* it was before the call.
C38_AddMetricAllOrNothing ==
    [][op'.name = "add_metric"
        => /\ (MissingKey(op'.arg) \/ NotInteger(op'.arg))
                => /\ op'.raised # "none"
                   /\ metrics' = metrics
           /\ op'.raised # "none" => metrics' = metrics]_vars

\* an add_metric that failed on a header after a metric had been stored
C38_Witness ==
    /\ Called("add_metric")
    /\ op.raised = "ValueError"
    /\ NotInteger(op.arg)
    /\ ~MissingKey(op.arg)
    /\ Len(metrics) = 1

-----
(* Claims about extract_code_simple, checked under ExtractSpec *)

\* the positions of the line breaks of a block
LineBreaks(block) == {i \in 1 .. Len(block) : block[i] = Newline}

\* the block without its first line: what follows its first line break, and
\* nothing when the first line is all there is
AfterFirstLine(block) ==
    IF LineBreaks(block) = {} THEN <<>>
    ELSE SubSeq(block, (CHOOSE i \in LineBreaks(block) : \A j \in LineBreaks(block) : i <= j) + 1,
                Len(block))

\* the number of blocks of the response that have their closing marker
ClosedBlocks == Len(written.blocks) - (IF written.closed THEN 0 ELSE 1)

\* C25 as stated: extract_code_simple returns, in order, the text between each
\* opening marker and its closing marker with the first line of the block
\* removed; no marker gives [], and a block with nothing after its first line
\* gives the empty string.
C25_BlocksWithoutFirstLine ==
    extracted.kind = "list"
        => extracted.list = [k \in 1 .. ClosedBlocks |-> AfterFirstLine(written.blocks[k])]

\* C25, amended: one entry per opening marker, in order: the text up to the
\* closing marker, or up to the end of the response when the closing marker is
\* missing; a block with a line break loses everything up to and including
\* its first line break, a block with no line break is returned whole; no
\* marker gives [], and a block that ends with its first line break gives the
\* empty string.
C25_BlocksExtracted ==
    extracted.kind = "list"
        => /\ Len(extracted.list) = Len(written.blocks)
           /\ \A k \in 1 .. Len(written.blocks) :
                extracted.list[k] = IF LineBreaks(written.blocks[k]) = {}
                                      THEN written.blocks[k]
                                      ELSE AfterFirstLine(written.blocks[k])
           /\ written.blocks = <<>> => extracted.list = <<>>

\* a block with identifier and code, then a block without its closing marker
C25_Witness ==
    /\ extracted.kind = "list"
    /\ written.blocks = <<<<"p", Newline, "c">>, <<"p", Newline, "c", Newline, "d">>>>
    /\ ~written.closed
    /\ extracted.list = <<<<"c">>, <<"c", Newline, "d">>>>

-----------------------------------------------------------------------------
(* Claims about get_file_paths, get_file_versions and main, checked under MainSpec *)

\* the contents GitHub sends that are base64 of UTF-8 text
GoodContents == {"eyJ0ZXN0IjogInZhbHVlIn0=", "WzFd"}

\* the fetch of the prior revision failed with status 404
PriorNotFound ==
    /\ versions.prior.kind = "error"
    /\ versions.prior.has_status
    /\ versions.prior.status = 404

\* C22: when the fetch of the prior revision fails with status 404,
\* get_file_versions takes "{}" as the original content and goes on to fetch
\* the modified content; when that fetch succeeds it returns ("{}", modified
\* content), and nothing is reported as an error.
C22_NewFileSentinel ==
    PriorNotFound
        => /\ versions.original_content = "{}"
           /\ mpc # "original"
           /\ versions.latter = NotFetched
                => /\ mpc = "modified"
                   /\ versions.returned.kind = "pending"
                   /\ ~versions.logged
                   /\ ENABLED (\E r \in FetchOutcomes : get_modified(r))
           /\ (versions.latter.kind = "ok" /\ versions.latter.content \in GoodContents)
                => /\ versions.returned.kind = "tuple"
                   /\ versions.returned.original = "{}"
                   /\ versions.returned.modified = B64Decode[versions.latter.content]
                   /\ ~versions.logged
                   /\ docs[Len(docs)].failed \notin {"commit", "versions"}
                   /\ mpc \notin {"exited", "modified"}

\* the test's case: the prior revision is not found, the modified one is there
C22_Witness ==
    /\ PriorNotFound
    /\ versions.latter.kind = "ok"
    /\ versions.latter.content = "eyJ0ZXN0IjogInZhbHVlIn0="
    /\ versions.returned = Tuple("{}", "{\"test\": \"value\"}")
    /\ mpc = "save"

\* the retrieval of the call in progress or last returned has failed
RetrievalFailed ==
    \/ versions.returned.kind = "raised"
    \/ /\ versions.prior # NotFetched
       /\ ~PriorNotFound
       /\ ~(versions.prior.kind = "ok" /\ versions.prior.content \in GoodContents)
    \/ /\ versions.latter # NotFetched
       /\ ~(versions.latter.kind = "ok" /\ versions.latter.content \in GoodContents)

\* C23: whenever retrieval fails (the commit lookup, the fetch of the prior
\* revision otherwise than with 404, or the fetch of the modified revision),
\* get_file_versions returns (None, None) and does not raise.
C23_FailureReturnsNonePair ==
    RetrievalFailed => versions.returned = Tuple("None", "None")

\* get_file_paths has returned to main
PathsReturned ==
    /\ mpc \notin {"unused", "start"}
    /\ ~(mpc = "raised" /\ docs = <<>> /\ op.name = "__init__")

\* the positions in commit.files of the files under the path, character by
\* character, whose status is added or modified
Wanted ==
    {i \in 1 .. Len(commit_files) :
        /\ Len(commit_files[i].filename) >= Len(contact_flow_path)
        /\ \A k \in 1 .. Len(contact_flow_path) :
                commit_files[i].filename[k] = contact_flow_path[k]
        /\ commit_files[i].status \in {"added", "modified"}}

\* the k-th smallest wanted position
Kth(k) == CHOOSE i \in Wanted : Cardinality({j \in Wanted : j < i}) = k - 1

\* C24: get_file_paths returns exactly the filenames of the commit's files
\* whose name starts with contact_flow_path and whose status is added or
\* modified, in the order of commit.files.
C24_ListedPaths ==
    PathsReturned
        => /\ Len(filepaths) = Cardinality(Wanted)
           /\ \A k \in 1 .. Len(filepaths) : filepaths[k] = commit_files[Kth(k)].filename

\* a sibling directory's file, then two contact flows not in name order
C24_Witness ==
    /\ PathsReturned
    /\ contact_flow_path = <<"f", "/">>
    /\ commit_files = <<[filename |-> <<"f", "x", "/", "a">>, status |-> "modified"],
                        [filename |-> <<"f", "/", "b">>, status |-> "added"],
                        [filename |-> <<"f", "/", "a">>, status |-> "modified"]>>
    /\ filepaths = <<<<"f", "/", "b">>, <<"f", "/", "a">>>>

\* C26: main aborts the whole batch on the first failure of a document (its
\* versions are not retrievable, saving them fails, or the model call fails):
\* the failed document is the last one main touched, main has ended, and the
\* metrics file, the metrics report and index.html are not written.
C26_AbortsOnFirstFailure ==
    \A i \in 1 .. Len(docs) :
        docs[i].failed # ""
            => /\ i = Len(docs)
               /\ mpc \in {"exited", "raised"}
               /\ ~ENABLED MainNext
               /\ metrics_file = Absent
               /\ report_file = Absent
               /\ index_file = Absent

\* the second of three documents fails in the model call
C26_Witness ==
    /\ Len(filepaths) = 3
    /\ Len(docs) = 2
    /\ docs[1].failed = ""
    /\ docs[1].compared
    /\ docs[2].failed = "compare"
    /\ mpc = "raised"
    /\ Len(metrics) = 1
    /\ metrics_file = Absent

-----------------------------------------------------------------------------
(* Claims about TokenRateLimiter, checked under Spec *)

\* a wait_for_tokens call has returned and none is in progress
Returned == pc = "idle" /\ ncalls > 0

\* the step in which wait_for_tokens is entered
Entering == pc = "idle" /\ ncalls' = ncalls + 1

\* what the lazy 60-second check makes of the window at the time of a call
UsedInWindow ==
    IF now - limiter.window_start_time >= Window THEN 0 ELSE limiter.used_tokens
StartOfWindow ==
    IF now - limiter.window_start_time >= Window THEN now ELSE limiter.window_start_time

\* the rest of the window at the time of the last call, after the lazy check
Remaining == IF call.elapsed >= Window THEN Window ELSE Window - call.elapsed

RECURSIVE SumTokens(_)
SumTokens(log) == IF log = <<>> THEN 0 ELSE Head(log).tokens + SumTokens(Tail(log))

C5_NoWaitUnderBudget ==
    [][(Entering /\ UsedInWindow + call'.tokens <= limiter.tokens_per_minute)
        => /\ pc' = "idle"
           /\ now' = now
           /\ limiter' = [limiter EXCEPT !.used_tokens = UsedInWindow + call'.tokens,
                                         !.window_start_time = StartOfWindow]]_vars

\* a call that fills the window exactly, on top of earlier consumption, and
\* returned without sleeping
C5_Witness ==
    /\ Returned
    /\ ncalls >= 2
    /\ call.tokens > 0
    /\ call.elapsed < Window
    /\ limiter.used_tokens > call.tokens
    /\ limiter.used_tokens = limiter.tokens_per_minute
    /\ call.woke = call.at
    /\ now = call.at

\* C6: when used_tokens + tokens_needed > tokens_per_minute in the current
\* window, the request is admitted only after a sleep of at least the rest of
\* the window, 60 - (now - window_start).
C6_WaitsRemainingWindow ==
    /\ [](pc = "sleeping" => sleep_until - call.at >= Remaining)
    /\ []((Returned /\ call.woke > call.at) => call.woke - call.at >= Remaining)
    /\ [][(Entering /\ UsedInWindow + call'.tokens > limiter.tokens_per_minute)
            => pc' = "sleeping"]_vars

\* the test's case: capacity 100, calls of 50 and 60 with no time between them
C6_Witness ==
    /\ Returned
    /\ limiter.tokens_per_minute = Tokens(100)
    /\ ncalls = 2
    /\ first_tokens = Tokens(50)
    /\ call.tokens = Tokens(60)
    /\ ticks = 0
    /\ call.at = 0
    /\ call.woke >= Window

\* C7: a fresh limiter of capacity C, calls a then b with a <= C and a + b > C:
\* at least 60 seconds lie between a clock reading taken before the first call
\* and one taken after the second call has returned.
C7_TestElapsedAtLeastWindow ==
    (/\ Returned
     /\ ncalls = 2
     /\ start_time >= 0
     /\ first_tokens <= limiter.tokens_per_minute
     /\ first_tokens + call.tokens > limiter.tokens_per_minute)
        => now - start_time >= Window

\* C8: on every call at which now - window_start >= 60 the budget test sees
\* used_tokens = 0 and window_start = now; outside wait_for_tokens, and so
\* while time passes between calls, the limiter does not change.
C8_LazyReset ==
    /\ [][(Entering /\ now - limiter.window_start_time >= Window)
            => IF call'.tokens <= limiter.tokens_per_minute
                 THEN /\ pc' = "idle"
                      /\ limiter' = [limiter EXCEPT !.used_tokens = call'.tokens,
                                                    !.window_start_time = now]
                 ELSE /\ pc' = "sleeping"
                      /\ sleep_until' = now + Window
                      /\ limiter' = [limiter EXCEPT !.used_tokens = 0,
                                                    !.window_start_time = now]]_vars
    /\ [][(pc = "idle" /\ ncalls' = ncalls) => limiter' = limiter]_vars

\* a call made exactly 60 seconds after the window started, which discarded
\* earlier consumption
C8_Witness ==
    /\ Returned
    /\ ncalls >= 2
    /\ first_tokens > 0
    /\ call.elapsed = Window
    /\ call.tokens > 0
    /\ limiter.window_start_time = call.at
    /\ limiter.used_tokens = call.tokens

\* C9 as stated: a call with tokens_needed > tokens_per_minute waits a full
\* window of 60 seconds and is then admitted.
C9_OversizedWaitsFullWindow ==
    (Returned /\ call.tokens > limiter.tokens_per_minute)
        => /\ call.woke - call.at >= Window
           /\ limiter.used_tokens = call.tokens

\* C9 amended: a call with tokens_needed > tokens_per_minute always sleeps, for
\* at least the rest of the current window (more than 0 and at most 60 seconds,
\* the window being the one left by the lazy reset check), and is then admitted.
C9_OversizedWaitsRemainingWindow ==
    /\ [][(Entering /\ call'.tokens > limiter.tokens_per_minute)
            => pc' = "sleeping"]_vars
    /\ []((ncalls > 0 /\ call.tokens > limiter.tokens_per_minute)
            => /\ Remaining > 0
               /\ Remaining <= Window
               /\ pc = "sleeping" => sleep_until = call.at + Remaining
               /\ pc = "idle" => /\ call.woke - call.at >= Remaining
                                 /\ limiter.used_tokens = call.tokens)

\* an oversized request admitted after less than a full window
C9_Witness ==
    /\ Returned
    /\ call.tokens > limiter.tokens_per_minute
    /\ call.elapsed > 0
    /\ call.woke - call.at < Window
    /\ limiter.used_tokens = call.tokens

\* C11: wait_for_tokens never ends in an error and always terminates: it
\* returns at once or after one sleep, the sleep once started runs to its end,
\* and the request is admitted in either case, never rejected.
C11_AlwaysReturnsAdmitted ==
    /\ [](pc \in {"idle", "sleeping"})
    /\ [][Entering => \/ pc' = "idle" /\ now' = now
                      \/ pc' = "sleeping" /\ sleep_until' >= now]_vars
    /\ [][pc = "sleeping" => /\ pc' = "idle"
                             /\ now' >= sleep_until
                             /\ ncalls' = ncalls]_vars
    /\ [](Returned => limiter.used_tokens >= call.tokens)
    /\ (pc = "sleeping") ~> (pc = "idle")

\* a request of more than the capacity, made on a limiter with earlier
\* consumption, has returned after its sleep
C11_Witness ==
    /\ Returned
    /\ ncalls >= 2
    /\ first_tokens > 0
    /\ call.tokens > limiter.tokens_per_minute
    /\ call.woke > call.at
    /\ limiter.used_tokens = call.tokens

\* C31: a wait_for_tokens call that had to wait ends with a hard reset: when
\* it returns, used_tokens is exactly its tokens_needed and window_start is the
\* time at which the sleep ended; a call that did not wait adds exactly its
\* tokens_needed to used_tokens and leaves window_start alone, both taken
\* after the lazy reset check.
C31_HardResetAfterWait ==
    /\ [][pc = "sleeping"
            => /\ pc' = "idle"
               /\ limiter' = [limiter EXCEPT !.used_tokens = call.tokens,
                                             !.window_start_time = now']
               /\ call'.woke = now']_vars
    /\ [][(Entering /\ pc' = "idle")
            => limiter' = [limiter EXCEPT !.used_tokens = UsedInWindow + call'.tokens,
                                          !.window_start_time = StartOfWindow]]_vars
    /\ []((Returned /\ call.woke > call.at)
            => /\ limiter.used_tokens = call.tokens
               /\ limiter.window_start_time = call.woke)

\* a call within capacity that waited on top of earlier consumption: it
\* returned with only its own tokens counted, in a window that starts at its end
C31_Witness ==
    /\ Returned
    /\ first_tokens > 0
    /\ ncalls >= 2
    /\ call.woke > call.at
    /\ now = call.woke
    /\ call.tokens > 0
    /\ call.tokens < limiter.tokens_per_minute
    /\ limiter.used_tokens = call.tokens
    /\ limiter.window_start_time = call.woke

\* C33: under a non-decreasing clock, whenever wait_for_tokens sleeps, the
\* computed sleep_time 60 - (now - window_start) is more than 0 and at most
\* 60 seconds, so max(0, sleep_time) is sleep_time itself.
C33_SleepTimeRange ==
    pc = "sleeping"
        => /\ Window - (call.at - limiter.window_start_time) > 0
           /\ Window - (call.at - limiter.window_start_time) <= Window
           /\ sleep_until - call.at = Window - (call.at - limiter.window_start_time)
           /\ call.at - limiter.window_start_time < Window
           /\ call.at >= limiter.window_start_time

\* a call made one tick before the end of the window sleeps that one tick
C33_Witness ==
    /\ pc = "sleeping"
    /\ call.elapsed = Window - 1
    /\ sleep_until - call.at = 1
    /\ now = call.at

\* the admissions since the window of the limiter started
SinceReset == SelectSeq(admitted, LAMBDA a : a.at >= limiter.window_start_time)

\* C34: under sequential use with non-negative requests and a non-decreasing
\* clock, window_start <= current time, window_start never decreases,
\* used_tokens >= 0, and used_tokens is the sum of the tokens_needed of the
\* calls admitted since the window was last reset (the admissions of the last
\* 60 seconds are on record, so the sum is compared while the window is
\* younger than that; an older window has not changed since).
C34_LimiterInvariants ==
    /\ [](/\ limiter.window_start_time <= now
          /\ limiter.used_tokens >= 0
          /\ now - limiter.window_start_time < Window
                => limiter.used_tokens = SumTokens(SinceReset))
    /\ [][limiter'.window_start_time >= limiter.window_start_time]_vars
    /\ [][now' >= now]_vars
    /\ [][(pc = "idle" /\ pc' = "idle" /\ ncalls' = ncalls) => limiter' = limiter]_vars

\* two admissions in a window that a reset started
C34_Witness ==
    /\ Returned
    /\ limiter.window_start_time > 0
    /\ Len(SinceReset) = 2
    /\ SinceReset[1].tokens > 0
    /\ SinceReset[2].tokens > 0
    /\ limiter.used_tokens = SinceReset[1].tokens + SinceReset[2].tokens

\* both threads' calls have returned
BothReturned == \A t \in Threads : thread[t].pc = "returned"

\* the tokens_needed of the calls that have returned, added up
StoredTotal == SumTokens(race.stored)

\* C32: two threads calling wait_for_tokens on one shared limiter race on
\* used_tokens.  When their calls do not overlap and no reset occurs, both are
\* counted and the budget holds; whenever no reset occurs, used_tokens is the
\* sum of both calls or, one increment lost, the tokens of the call that
\* stored last.  (The race itself is the state of the witness.)
C32_UnsynchronisedUpdates ==
    /\ (BothReturned /\ ~race.reset /\ ~race.overlap)
            => /\ limiter.used_tokens = StoredTotal
               /\ limiter.used_tokens <= limiter.tokens_per_minute
    /\ (BothReturned /\ ~race.reset)
            => limiter.used_tokens \in {StoredTotal, race.stored[Len(race.stored)].tokens}
    /\ (BothReturned /\ ~race.reset /\ limiter.used_tokens < StoredTotal) => race.overlap
    /\ \A t \in Threads : thread[t].pc = "returned" => limiter.used_tokens >= 0

\* both calls were admitted without sleeping although together they exceed
\* the budget, and the increment of one of them is lost
C32_Witness ==
    /\ BothReturned
    /\ \A t \in Threads : ~thread[t].slept /\ thread[t].tokens_needed > 0
    /\ ~race.reset
    /\ StoredTotal > limiter.tokens_per_minute
    /\ limiter.used_tokens < StoredTotal
    /\ limiter.used_tokens = race.stored[2].tokens

\* C10: with every request <= tokens_per_minute, the tokens admitted within any
\* 60 seconds sum to at most tokens_per_minute.
C10_SlidingWindowCap ==
    largest <= limiter.tokens_per_minute
        => SumTokens(admitted) <= limiter.tokens_per_minute

-----------------------------------------------------------------------------
(* Claims about a batch run of main, checked under BatchSpec *)

\* the documents whose model invocation has ended, and those for which a
\* response came back and main kept its page and its metric
Ended == {i \in 1 .. Len(docs) : docs[i].compared}
Kept == {i \in 1 .. Len(docs) : docs[i].compared /\ docs[i].failed = ""}

\* the loop over the documents is over
AfterLoop == mpc \in {"report", "index", "done"} \/ (mpc = "loop" /\ Len(docs) = Len(filepaths))

\* C36 as stated: one metric per document's model invocation, created on the
\* attempt that ends it, the successful or the final one.
C36_OneMetricPerInvocation ==
    mpc # "invoke" => Len(metrics) = Cardinality(Ended)

\* C36: a metric is created only when a document's model invocation has
\* returned a response, one per such invocation and never by an attempt; an
\* invocation that raises, on its final attempt or otherwise, or whose response
\* is rejected afterwards, creates none and ends the run; after the loop the
\* collector holds one metric per document, in document order.
C36_OneMetricPerReturnedInvocation ==
    /\ [][metrics' # metrics
            => /\ mpc = "invoke"
               /\ ipc = "returned"
               /\ mpc' = "loop"
               /\ Len(metrics') = Len(metrics) + 1
               /\ SubSeq(metrics', 1, Len(metrics)) = metrics]_vars
    /\ [](/\ Len(metrics) = Cardinality(Kept)
          /\ \A i \in 1 .. Len(metrics) : metrics[i].request_id = filepaths[i]
          /\ mpc = "invoke" => Len(metrics) = Len(docs) - 1
          /\ (docs # <<>> /\ docs[Len(docs)].failed # "")
                => /\ mpc \in {"raised", "exited"}
                   /\ Len(metrics) = Len(docs) - 1
          /\ AfterLoop => Len(metrics) = Len(filepaths))

\* two documents, the second answered on its second attempt: two metrics
C36_Witness ==
    /\ AfterLoop
    /\ Len(filepaths) = 2
    /\ outcomes = <<"ThrottlingException", "ok">>
    /\ call_count = 2
    /\ Len(metrics) = 2
    /\ metrics[1].request_id = filepaths[1]
    /\ metrics[2].request_id = filepaths[2]

\* C39: each document gets a freshly constructed TokenRateLimiter (used_tokens
\* 0, window_start the construction time), so consumption is not carried over
\* from one document to the next: what a limiter has used is what the attempts
\* of the invoke in progress added, and it only sleeps because of them.  (That
\* the admissions of one minute exceed tokens_per_minute across documents is
\* the state of the witness.)
C39_FreshLimiterPerDocument ==
    /\ [][(mpc = "compare" /\ mpc' = "invoke")
            => /\ limiter' = [tokens_per_minute |-> Tokens(MainTokensPerMinute),
                              used_tokens |-> 0,
                              window_start_time |-> now']
               /\ ncalls' = 0]_vars
    /\ [](mpc = "invoke"
            => /\ 4 * limiter.used_tokens <= Passed * Tokens(request_len)
               /\ ncalls = Passed + (IF pc = "sleeping" THEN 1 ELSE 0)
               /\ \E k \in 0 .. Passed : 4 * limiter.used_tokens = k * Tokens(request_len)
               /\ pc = "sleeping" => Passed = call_count)
    /\ [](pc = "sleeping" => mpc = "invoke")

\* two documents answered on their first attempt in the same minute, neither
\* having slept: together they exceed tokens_per_minute
C39_Witness ==
    /\ mpc = "invoke"
    /\ Len(docs) = 2
    /\ ipc = "returned"
    /\ call_count = 1
    /\ call.woke = call.at
    /\ Len(admitted) = 2
    /\ admitted[2].at - admitted[1].at < Window
    /\ SumTokens(admitted) > Tokens(MainTokensPerMinute)
    /\ limiter.used_tokens = admitted[2].tokens

====
